---- MODULE Spec2Model ----
(***************************************************************************)
(* Posti delivery dates: the update coordinator (both variants found in    *)
(* the repository), the date reconciliation it runs on every successful    *)
(* fetch, and the sensor's derived view.                                   *)
(*                                                                         *)
(* Time is counted in ticks of TickSeconds seconds since 2025-05-30 00:00. *)
(* A date string "2025-MM-DD" is the pair <<MM, DD>>; strptime turns it    *)
(* into a day ordinal of 2025 or fails (ValueError) when no such day       *)
(* exists.  None is the empty tuple for a date and a record with           *)
(* present = FALSE for the coordinator's data.                             *)
(***************************************************************************)
EXTENDS Integers, Sequences, FiniteSets, TLC

\* ---------------------------------------------------------------- bounds
MaxNow == 4
MaxCycles == 3
MaxDates == 2
RandStride == 300

\* ------------------------------------------------------------- constants
\* timedelta(...) values, in seconds
SECONDS_PER_DAY == 24 * 3600
DEFAULT_UPDATE_INTERVAL == 12 * 3600
INITIAL_RANDOM_OFFSET_MAX == 30 * 60
UPDATE_JITTER_MAX == 2 * 60
\* imported by the dates coordinator but not defined in const.py
RETRY_UPDATE_INTERVAL == 1 * 3600

\* the clock advances in steps of half a day
TickSeconds == DEFAULT_UPDATE_INTERVAL

\* ------------------------------------------------------------ dates
NoDate == <<>>

DaysInMonth == <<31, 28, 31, 30, 31, 30, 31, 31, 30, 31, 30, 31>>

RECURSIVE DaysBefore(_)
DaysBefore(m) == IF m <= 1 THEN 0 ELSE DaysInMonth[m - 1] + DaysBefore(m - 1)

\* datetime.strptime(d, "%Y-%m-%d") succeeds
WellFormed(s) ==
    /\ Len(s) = 2
    /\ s[1] \in 1..12
    /\ s[2] >= 1
    /\ s[2] <= DaysInMonth[s[1]]

\* datetime.strptime(d, "%Y-%m-%d").date(), as the day ordinal within 2025
strptime(s) == DaysBefore(s[1]) + s[2]

\* the date strings the remote service can send; <<6, 31>> is "2025-06-31"
DateStrings == {<<5, 31>>, <<6, 1>>, <<6, 31>>}

RECURSIVE SeqsUpTo(_, _)
SeqsUpTo(S, n) ==
    IF n = 0 THEN {<<>>}
    ELSE LET shorter == SeqsUpTo(S, n - 1)
         IN shorter \cup {Append(q, x) : q \in {p \in shorter : Len(p) = n - 1}, x \in S}

DateLists == SeqsUpTo(DateStrings, MaxDates) \ {<<>>}

\* date.today() at tick t; tick 0 is 2025-05-30 00:00
StartDay == strptime(<<5, 30>>)
Today(t) == StartDay + ((t * TickSeconds) \div SECONDS_PER_DAY)

\* [d for d in dates if strptime(d).date() >= today]
RECURSIVE FutureDates(_, _)
FutureDates(dates, today) ==
    IF dates = <<>> THEN <<>>
    ELSE IF strptime(Head(dates)) >= today
         THEN <<Head(dates)>> \o FutureDates(Tail(dates), today)
         ELSE FutureDates(Tail(dates), today)

\* the comprehension raises ValueError as soon as one entry does not parse
AllWellFormed(dates) == \A i \in 1..Len(dates) : WellFormed(dates[i])

\* ------------------------------------------------------------ data
NoneData ==
    [present |-> FALSE, delivery_dates |-> <<>>, last_updated |-> 0,
     last_delivery_date |-> NoDate]

\* a snapshot stamped with the time of construction instead of the fetch
MakeDataUnstamped(dates, t, last) ==
    [present |-> TRUE, delivery_dates |-> dates, last_updated |-> 0,
     last_delivery_date |-> last]

MakeData(dates, t, last) ==
    [present |-> TRUE, delivery_dates |-> dates, last_updated |-> t,
     last_delivery_date |-> last]

VARIABLES
    variant,            \* "dates": posti_delivery_dates, "plain": posti_delivery
    now,                \* datetime.now(), in ticks
    data,               \* coordinator.data
    last_update_success,\* coordinator.last_update_success
    update_interval,    \* coordinator.update_interval, seconds
    first_update,       \* self._first_update
    skip_first_update,  \* self._skip_first_update
    outcome,            \* how the last cycle ended: none, skip, success,
                        \* failure (UpdateFailed), error (another exception)
    prev_outcome,       \* how the cycle before it ended
    cycles,             \* number of cycles run so far
    errors,             \* errors["base"] of the last step of the config flow
    entry,              \* the config entry the flow created
    configured          \* postal codes configured before this flow

vars == <<variant, now, data, last_update_success, update_interval,
          first_update, skip_first_update, outcome, prev_outcome, cycles,
          errors, entry, configured>>

coordinator_vars == <<data, last_update_success, update_interval, first_update,
                      skip_first_update, outcome, prev_outcome, cycles>>

flow_vars == <<errors, entry, configured>>

\* ------------------------------------------------------------ remote service
\* One request/response cycle.  kind: the transport's result; json: what
\* response.json() yields (invalid: it raises); entries: the JSON array.
Entry(hasPostalCode, hasDeliveryDates, dates) ==
    [postalCode |-> hasPostalCode, hasDeliveryDates |-> hasDeliveryDates,
     deliveryDates |-> dates]

Response(kind, status, json, entries) ==
    [kind |-> kind, status |-> status, json |-> json, entries |-> entries]

FailedResponses ==
    { Response("ClientError", 0, "null", <<>>),
      Response("TimeoutError", 0, "null", <<>>),
      Response("http", 500, "null", <<>>),
      Response("http", 200, "invalid", <<>>),
      Response("http", 200, "null", <<>>),
      Response("http", 200, "object", <<>>),
      Response("http", 200, "list", <<>>),
      Response("http", 200, "list", <<Entry(TRUE, FALSE, <<>>)>>),
      Response("http", 200, "list", <<Entry(TRUE, TRUE, <<>>)>>) }

DatedResponses ==
    { Response("http", 200, "list", <<Entry(TRUE, TRUE, L)>>) : L \in DateLists }
    \cup
    { Response("http", 200, "list", <<Entry(FALSE, TRUE, <<d>>)>>) : d \in DateStrings }

Responses == FailedResponses \cup DatedResponses

\* random.randint(lo, hi), sampled every RandStride seconds, both ends included
randint(lo, hi) == {x \in lo..hi : (x - lo) % RandStride = 0} \cup {hi}

\* ------------------------------------------------------------ config flow
\* a text is a sequence of one-character strings
Digits == {"0", "1", "2", "3", "4", "5", "6", "7", "8", "9"}

RECURSIVE lstrip(_)
lstrip(text) ==
    IF text # <<>> /\ Head(text) = " " THEN lstrip(Tail(text)) ELSE text

RECURSIVE rstrip(_)
rstrip(text) ==
    IF text # <<>> /\ text[Len(text)] = " "
    THEN rstrip(SubSeq(text, 1, Len(text) - 1))
    ELSE text

\* str.strip()
strip(text) == rstrip(lstrip(text))

\* re.match(r"^\d{5}$", postal_code)
MatchesFiveDigits(text) ==
    /\ Len(text) = 5
    /\ \A i \in 1..5 : text[i] \in Digits

\* what the user can type into the form
PostalCodeInputs ==
    { <<"0", "0", "1", "0", "0">>,
      <<" ", "0", "0", "1", "0", "0", " ">>,
      <<"0", "0", "1", "0">>,
      <<"0", "0", "1", "0", "0", "0">>,
      <<"0", "0", "1", "0", "a">>,
      <<"0", "0", " ", "0", "0">>,
      <<>> }

\* the exception raised inside the try block of validate_input, or none
ValidateResponse(resp) ==
    IF resp.kind # "http" THEN resp.kind
    ELSE IF resp.status # 200 THEN "CannotConnect"
    ELSE IF resp.json = "invalid" THEN "JSONDecodeError"
    ELSE IF resp.json # "list" THEN "NoData"
    ELSE IF resp.entries = <<>> THEN "NoData"
    ELSE IF ~resp.entries[1].postalCode \/ ~resp.entries[1].hasDeliveryDates
    THEN "NoData"
    ELSE IF resp.entries[1].deliveryDates = <<>> THEN "NoData"
    ELSE "none"

\* the except clauses of validate_input: what leaves the function
HandleException(exc) ==
    IF exc = "none" THEN "none"
    ELSE IF exc = "ClientError" THEN "CannotConnect"
    ELSE "UnknownError"

Validated(raised, postal_code, dates) ==
    [raised |-> raised, postal_code |-> postal_code, delivery_dates |-> dates]

\* validate_input without the test of the postal code's form
ValidateInputAnyText(text, resp) ==
    LET postal_code == strip(text)
        raised == HandleException(ValidateResponse(resp))
    IN IF raised # "none" THEN Validated(raised, postal_code, <<>>)
       ELSE Validated("none", postal_code, resp.entries[1].deliveryDates)

\* validate_input
validate_input(text, resp) ==
    LET postal_code == strip(text)
        raised == HandleException(ValidateResponse(resp))
    IN IF ~MatchesFiveDigits(postal_code)
       THEN Validated("InvalidPostalCode", postal_code, <<>>)
       ELSE IF raised # "none" THEN Validated(raised, postal_code, <<>>)
       ELSE Validated("none", postal_code, resp.entries[1].deliveryDates)

\* the except clauses of async_step_user
ErrorKey(raised) ==
    IF raised = "InvalidPostalCode" THEN "invalid_postal_code"
    ELSE IF raised = "CannotConnect" THEN "cannot_connect"
    ELSE IF raised = "NoData" THEN "no_data"
    ELSE "unknown"

\* datetime.isoformat and datetime.fromisoformat
isoformat(t) == <<"T", t>>
fromisoformat(text) == text[2]

NoEntry ==
    [created |-> FALSE, postal_code |-> <<>>, delivery_dates |-> <<>>,
     last_updated |-> isoformat(0)]

\* async_create_entry: the postal code and the initial data
CreateEntry(postal_code, dates, t) ==
    [created |-> TRUE, postal_code |-> postal_code, delivery_dates |-> dates,
     last_updated |-> isoformat(t)]

\* ------------------------------------------------------------ coordinator
Returned(v) == [raised |-> FALSE, value |-> v]
Raised == [raised |-> TRUE, value |-> <<>>]

\* the response checks, keeping only the first delivery date
FetchFirstDateOnly(resp) ==
    IF resp.kind # "http" \/ resp.status # 200 \/ resp.json # "list" THEN Raised
    ELSE IF resp.entries = <<>> THEN Raised
    ELSE IF ~resp.entries[1].hasDeliveryDates THEN Raised
    ELSE IF resp.entries[1].deliveryDates = <<>> THEN Raised
    ELSE Returned(<<Head(resp.entries[1].deliveryDates)>>)

\* the checks on the response inside the try block; value: the delivery dates
fetch_delivery_dates(resp) ==
    IF resp.kind # "http" THEN Raised
    ELSE IF resp.status # 200 THEN Raised
    ELSE IF resp.json = "invalid" THEN Raised
    ELSE IF resp.json # "list" \/ resp.entries = <<>> THEN Raised
    ELSE IF ~resp.entries[1].hasDeliveryDates THEN Raised
    ELSE IF resp.entries[1].deliveryDates = <<>> THEN Raised
    ELSE Returned(resp.entries[1].deliveryDates)

\* _check_last_delivery: the previous next delivery, if it has now passed
check_last_delivery(d, today) ==
    IF ~d.present THEN Returned(NoDate)
    ELSE IF d.delivery_dates = <<>> THEN Returned(d.last_delivery_date)
    ELSE IF ~AllWellFormed(d.delivery_dates) THEN Raised
    ELSE LET prev_future_dates == FutureDates(d.delivery_dates, today)
             prev_next_delivery ==
                 IF prev_future_dates # <<>> THEN Head(prev_future_dates) ELSE NoDate
         IN IF prev_next_delivery # NoDate /\ strptime(prev_next_delivery) < today
            THEN Returned(prev_next_delivery)
            ELSE Returned(d.last_delivery_date)

\* _is_data_stale: the cached data is older than the update interval
is_data_stale(d, t) ==
    IF ~d.present THEN TRUE
    ELSE (t - d.last_updated) * TickSeconds > DEFAULT_UPDATE_INTERVAL

\* a coordinator that ignores the seed and always fetches
NeverSkips(stale, skip) == FALSE

\* a coordinator that returns the cached data whenever it is not stale
SkipsWhileFresh(stale, skip) == ~stale

\* the branch at the head of _async_update_data: TRUE when the cycle returns
\* the cached data without fetching
SkipsFetch(stale, skip) ==
    IF stale /\ ~skip THEN FALSE
    ELSE skip

\* a failure that drops the cached data
FailedUpdateClearsData(d) ==
    [ok |-> FALSE, exc |-> "UpdateFailed", data |-> NoneData,
     update_interval |-> RETRY_UPDATE_INTERVAL]

\* both except branches: retry sooner, raise UpdateFailed, data stays
FailedUpdate(d) ==
    [ok |-> FALSE, exc |-> "UpdateFailed", data |-> d,
     update_interval |-> RETRY_UPDATE_INTERVAL]

\* the reconciliation run outside the try block: its ValueError escapes
TryUpdateUnguarded(d, resp, t) ==
    LET got == fetch_delivery_dates(resp)
        last == check_last_delivery(d, Today(t))
    IN IF got.raised THEN FailedUpdate(d)
       ELSE IF last.raised
       THEN [ok |-> FALSE, exc |-> "ValueError", data |-> d,
             update_interval |-> DEFAULT_UPDATE_INTERVAL]
       ELSE [ok |-> TRUE, exc |-> "none",
             data |-> MakeData(got.value, t, last.value),
             update_interval |-> DEFAULT_UPDATE_INTERVAL]

\* a success that leaves the interval of the failure branch in place
TryUpdateKeepsRetry(d, resp, t) ==
    LET got == fetch_delivery_dates(resp)
        last == check_last_delivery(d, Today(t))
    IN IF got.raised \/ last.raised
       THEN FailedUpdate(d)
       ELSE [ok |-> TRUE, exc |-> "none",
             data |-> MakeData(got.value, t, last.value),
             update_interval |-> RETRY_UPDATE_INTERVAL]

\* the try block of the dates coordinator, for one response at tick t
TryUpdate(d, resp, t) ==
    LET got == fetch_delivery_dates(resp)
        last == check_last_delivery(d, Today(t))
    IN IF got.raised \/ last.raised
       THEN FailedUpdate(d)
       ELSE [ok |-> TRUE, exc |-> "none",
             data |-> MakeData(got.value, t, last.value),
             update_interval |-> DEFAULT_UPDATE_INTERVAL]

OffsetRange == randint(0, INITIAL_RANDOM_OFFSET_MAX)
\* the jitter's upper end taken from the wrong constant
WideJitterRange == randint(-UPDATE_JITTER_MAX, INITIAL_RANDOM_OFFSET_MAX)
JitterRange == randint(-UPDATE_JITTER_MAX, UPDATE_JITTER_MAX)

\* the first-update flag is not consulted: the offset is drawn on every cycle
OffsetOnEveryCycle(skip, first) == OffsetRange

\* the one random.randint call of a cycle of the plain coordinator: the
\* initial offset on the skipped or first update, the jitter afterwards
RandomSeconds(skip, first) ==
    IF skip THEN OffsetRange
    ELSE IF first THEN OffsetRange
    ELSE JitterRange

\* the try block of the plain coordinator: no reconciliation, no retry interval
PlainTryUpdate(d, resp, t, interval) ==
    LET got == fetch_delivery_dates(resp)
    IN IF got.raised
       THEN [ok |-> FALSE, exc |-> "UpdateFailed", data |-> d,
             update_interval |-> interval]
       ELSE [ok |-> TRUE, exc |-> "none", data |-> MakeData(got.value, t, NoDate),
             update_interval |-> interval]

\* ------------------------------------------------------------ sensor
\* a state that is the first delivery date of the list, passed or not
FirstDateOfList(d, today) ==
    IF ~d.present THEN Returned(NoDate)
    ELSE IF d.delivery_dates = <<>> THEN Returned(NoDate)
    ELSE IF ~AllWellFormed(d.delivery_dates) THEN Raised
    ELSE Returned(Head(d.delivery_dates))

\* native_value: the first delivery date that is today or later
native_value(d, today) ==
    IF ~d.present THEN Returned(NoDate)
    ELSE IF d.delivery_dates = <<>> THEN Returned(NoDate)
    ELSE IF ~AllWellFormed(d.delivery_dates) THEN Raised
    ELSE LET future_dates == FutureDates(d.delivery_dates, today)
         IN Returned(IF future_dates # <<>> THEN Head(future_dates) ELSE NoDate)

\* an optional integer: <<>> is None
NoDays == <<>>

Attributes(next, last, days, count, all, updated) ==
    [keys |-> TRUE, next_scheduled_date |-> next, last_scheduled_date |-> last,
     days_until_next |-> days, delivery_count |-> count,
     all_delivery_dates |-> all, last_updated |-> updated]

\* the empty dict returned while the coordinator has no data
NoAttributes ==
    [keys |-> FALSE, next_scheduled_date |-> NoDate, last_scheduled_date |-> NoDate,
     days_until_next |-> NoDays, delivery_count |-> 0,
     all_delivery_dates |-> <<>>, last_updated |-> 0]

\* the day count taken the wrong way round
DaysSinceNext(next_delivery, today) ==
    IF next_delivery = NoDate \/ ~WellFormed(next_delivery) THEN NoDays
    ELSE <<today - strptime(next_delivery)>>

\* days_until_next: (next_date - today).days, None when there is no next
\* delivery or its date does not parse
DaysUntilNext(next_delivery, today) ==
    IF next_delivery = NoDate \/ ~WellFormed(next_delivery) THEN NoDays
    ELSE <<strptime(next_delivery) - today>>

\* extra_state_attributes
extra_state_attributes(d, today) ==
    IF ~d.present THEN Returned(NoAttributes)
    ELSE IF d.delivery_dates = <<>>
    THEN Returned(Attributes(NoDate, NoDate, NoDays, 0, <<>>, d.last_updated))
    ELSE IF ~AllWellFormed(d.delivery_dates) THEN Raised
    ELSE LET future_dates == FutureDates(d.delivery_dates, today)
             next_delivery == IF future_dates # <<>> THEN Head(future_dates) ELSE NoDate
             days_until_next == DaysUntilNext(next_delivery, today)
         IN Returned(Attributes(next_delivery, d.last_delivery_date, days_until_next,
                                Len(d.delivery_dates), d.delivery_dates,
                                d.last_updated))

\* availability that looks at the last update only
AvailableOnSuccessOnly(success, d) == success

\* available: there is data, or the last update succeeded
available(success, d) == success \/ d.present

\* ------------------------------------------------------------ behaviour
\* the data of a coordinator that has not run a cycle yet: None, or the seed
\* of the config entry
Seeds == {NoneData} \cup {MakeData(L, 0, NoDate) : L \in DateLists}

\* the postal code of the entry
PostalCode == <<"0", "0", "1", "0", "0">>

\* a coordinator that was just constructed; it does not read the entry again
Init ==
    /\ variant \in {"dates", "plain"}
    /\ now = 0
    /\ data \in Seeds
    /\ errors = "none"
    /\ entry = NoEntry
    /\ configured = {}
    /\ skip_first_update = data.present
    /\ first_update = TRUE
    /\ update_interval = DEFAULT_UPDATE_INTERVAL
    /\ last_update_success = TRUE
    /\ outcome = "none"
    /\ prev_outcome = "none"
    /\ cycles = 0

\* the config flow opens: no entry, no coordinator
FlowInit ==
    /\ variant \in {"dates", "plain"}
    /\ now = 0
    /\ data = NoneData
    /\ errors = "none"
    /\ entry = NoEntry
    /\ configured \in {{}, {PostalCode}}
    /\ skip_first_update = FALSE
    /\ first_update = TRUE
    /\ update_interval = DEFAULT_UPDATE_INTERVAL
    /\ last_update_success = TRUE
    /\ outcome = "none"
    /\ prev_outcome = "none"
    /\ cycles = 0

\* async_step_user with the user's input and the service's response
StepUser(text, resp) ==
    /\ ~entry.created
    /\ errors # "already_configured"
    /\ LET info == validate_input(text, resp)
       IN IF info.raised # "none"
          THEN /\ errors' = ErrorKey(info.raised)
               /\ UNCHANGED entry
          ELSE IF info.postal_code \in configured
          THEN /\ errors' = "already_configured"
               /\ UNCHANGED entry
          ELSE /\ errors' = "none"
               /\ entry' = CreateEntry(info.postal_code, info.delivery_dates, now)
    /\ UNCHANGED <<variant, now, configured>>
    /\ UNCHANGED coordinator_vars

\* __init__ with the initial data of the entry the flow created
SetupEntry ==
    /\ entry.created
    /\ ~data.present
    /\ data' = MakeData(entry.delivery_dates, fromisoformat(entry.last_updated),
                        NoDate)
    /\ skip_first_update' = TRUE
    /\ UNCHANGED <<variant, now, last_update_success, update_interval,
                   first_update, outcome, prev_outcome, cycles>>
    /\ UNCHANGED flow_vars

\* the clock moves on
Tick ==
    /\ now < MaxNow
    /\ now' = now + 1
    /\ UNCHANGED <<variant, errors, entry, configured>>
    /\ UNCHANGED coordinator_vars

\* what the framework does with the result of _async_update_data
Publish(r) ==
    /\ data' = r.data
    /\ last_update_success' = r.ok
    /\ update_interval' = r.update_interval
    /\ outcome' = IF r.ok THEN "success"
                   ELSE IF r.exc = "UpdateFailed" THEN "failure"
                   ELSE "error"

\* one cycle of posti_delivery_dates.coordinator
AsyncUpdateData(resp) ==
    /\ variant = "dates"
    /\ cycles < MaxCycles
    /\ IF SkipsFetch(is_data_stale(data, now), skip_first_update)
       THEN /\ skip_first_update' = FALSE
            /\ outcome' = "skip"
            /\ last_update_success' = TRUE
            /\ UNCHANGED <<data, update_interval>>
       ELSE /\ Publish(TryUpdate(data, resp, now))
            /\ UNCHANGED skip_first_update
    /\ first_update' = FALSE
    /\ prev_outcome' = outcome
    /\ cycles' = cycles + 1
    /\ UNCHANGED <<variant, now>>
    /\ UNCHANGED flow_vars

\* one cycle of posti_delivery.coordinator
PlainAsyncUpdateData(resp, seconds) ==
    /\ variant = "plain"
    /\ cycles < MaxCycles
    /\ seconds \in RandomSeconds(skip_first_update, first_update)
    /\ IF skip_first_update
       THEN /\ skip_first_update' = FALSE
            /\ update_interval' = DEFAULT_UPDATE_INTERVAL + seconds
            /\ outcome' = "skip"
            /\ last_update_success' = TRUE
            /\ UNCHANGED data
       ELSE /\ Publish(PlainTryUpdate(data, resp, now,
                                      DEFAULT_UPDATE_INTERVAL + seconds))
            /\ UNCHANGED skip_first_update
    /\ first_update' = FALSE
    /\ prev_outcome' = outcome
    /\ cycles' = cycles + 1
    /\ UNCHANGED <<variant, now>>
    /\ UNCHANGED flow_vars

Next ==
    \/ Tick
    \/ \E resp \in Responses : AsyncUpdateData(resp)
    \/ \E resp \in Responses, seconds \in OffsetRange \cup JitterRange :
          PlainAsyncUpdateData(resp, seconds)

Spec == Init /\ [][Next]_vars

\* the config flow up to the construction of the coordinator
FlowNext ==
    \/ \E text \in PostalCodeInputs, resp \in Responses : StepUser(text, resp)
    \/ SetupEntry
    \/ Tick

FlowSpec == FlowInit /\ [][FlowNext]_vars

\* the reconciliation never stores a date: the date it picks is on or after
\* today, so the test that it lies before today cannot succeed
LastDeliveryDateStaysNone == data.last_delivery_date = NoDate

TypeOK ==
    /\ variant \in {"dates", "plain"}
    /\ now \in 0..MaxNow
    /\ data.last_updated <= now
    /\ outcome \in {"none", "skip", "success", "failure", "error"}
    /\ cycles \in 0..MaxCycles

\* ------------------------------------------------------------ properties
RECURSIVE MinDate(_)
MinDate(S) ==
    LET d == CHOOSE x \in S : TRUE
    IN IF S = {d} THEN d
       ELSE LET m == MinDate(S \ {d})
            IN IF strptime(d) <= strptime(m) THEN d ELSE m

\* the well-formed dates of a list that are on or after today
FutureSet(dates, today) ==
    {dates[i] : i \in {j \in 1..Len(dates) :
                         WellFormed(dates[j]) /\ strptime(dates[j]) >= today}}

\* the minimum of the future partition, or None
EarliestFuture(dates, today) ==
    IF FutureSet(dates, today) = {} THEN NoDate ELSE MinDate(FutureSet(dates, today))

\* C1: when the next delivery date D of the cached data (the earliest date on
\* or after the day the data was cached) lies strictly before today, a
\* successful cycle of the dates coordinator stores D as last_delivery_date.
C1_PassedDeliveryIsRecorded ==
    [][ ( /\ variant = "dates"
          /\ cycles' = cycles + 1
          /\ outcome' = "success"
          /\ data.present
          /\ EarliestFuture(data.delivery_dates, Today(data.last_updated)) # NoDate
          /\ strptime(EarliestFuture(data.delivery_dates, Today(data.last_updated)))
                < Today(now) )
        => data'.last_delivery_date =
              EarliestFuture(data.delivery_dates, Today(data.last_updated)) ]_vars

\* C2: a cycle of the dates coordinator that starts with stale data (older
\* than the base interval, or no data at all) performs a fetch: it ends in a
\* success or a failure, never in a skip.
C2_StaleDataForcesFetch ==
    [][ ( /\ variant = "dates"
          /\ cycles' = cycles + 1
          /\ is_data_stale(data, now) )
        => outcome' \in {"success", "failure"} ]_vars

\* C3: a cycle whose fetch fails leaves the data (delivery dates, last
\* updated, last delivery date) exactly as it was before the cycle.
C3_FailureKeepsData ==
    [][ (cycles' = cycles + 1 /\ outcome' = "failure") => data' = data ]_vars

C3_Witness ==
    /\ variant = "dates"
    /\ outcome = "failure"
    /\ data.present
    /\ ~last_update_success

\* C4: after every cycle whose fetch fails the update interval is the fixed
\* retry interval, which is strictly less than the base interval.
C4_FailureSchedulesRetry ==
    [][ (cycles' = cycles + 1 /\ outcome' = "failure")
        => /\ update_interval' = RETRY_UPDATE_INTERVAL
           /\ update_interval' < DEFAULT_UPDATE_INTERVAL ]_vars

\* C5: the first cycle of a coordinator constructed with a seed whose
\* last_updated is now performs no fetch and returns the seeded data unchanged.
C5_SeededFirstCycleSkips ==
    [][ ( /\ cycles = 0
          /\ cycles' = 1
          /\ data.present
          /\ data.last_updated = now )
        => (outcome' = "skip" /\ data' = data) ]_vars

C5_Witness ==
    /\ cycles = 1
    /\ outcome = "skip"
    /\ data.present
    /\ data.last_updated = now

\* C6: in the coordinator that draws the initial offset, the first cycle
\* schedules a wait in [base, base + offsetMax], and no later cycle
\* schedules a wait above base + jitterMax.
C6_OffsetOnFirstCycleOnly ==
    [][ (variant = "plain" /\ cycles' = cycles + 1)
        => IF cycles = 0
           THEN /\ update_interval' >= DEFAULT_UPDATE_INTERVAL
                /\ update_interval' <= DEFAULT_UPDATE_INTERVAL + INITIAL_RANDOM_OFFSET_MAX
           ELSE update_interval' <= DEFAULT_UPDATE_INTERVAL + UPDATE_JITTER_MAX ]_vars

C6_Witness ==
    /\ variant = "plain"
    /\ cycles = 2
    /\ update_interval < DEFAULT_UPDATE_INTERVAL

\* C7: after every successful fetch cycle that is not the first cycle the
\* update interval lies in [base - jitterMax, base + jitterMax].
C7_SteadyWaitWithinJitter ==
    [][ (cycles >= 1 /\ cycles' = cycles + 1 /\ outcome' = "success")
        => /\ update_interval' >= DEFAULT_UPDATE_INTERVAL - UPDATE_JITTER_MAX
           /\ update_interval' <= DEFAULT_UPDATE_INTERVAL + UPDATE_JITTER_MAX ]_vars

C7_Witness ==
    /\ variant = "plain"
    /\ cycles >= 2
    /\ outcome = "success"
    /\ update_interval = DEFAULT_UPDATE_INTERVAL + UPDATE_JITTER_MAX

\* C8: once there is data the sensor stays available through every later
\* step, and the sensor is unavailable only when there is no data and the
\* last cycle ended in a failed fetch.
C8_AvailableOnceDataExists ==
    [][ /\ data.present => available(last_update_success', data')
        /\ ~available(last_update_success', data')
              => (~data'.present /\ outcome' = "failure") ]_vars

C8_Witness ==
    /\ data.present
    /\ outcome = "failure"
    /\ ~last_update_success
    /\ available(last_update_success, data)

\* C9: the sensor's state and its next_scheduled_date attribute are the
\* minimum of the delivery dates on or after today, or None when there is
\* none, whatever the order of the list.
C9_NextIsEarliestFuture ==
    (data.present /\ AllWellFormed(data.delivery_dates))
    => /\ native_value(data, Today(now)).value
             = EarliestFuture(data.delivery_dates, Today(now))
       /\ extra_state_attributes(data, Today(now)).value.next_scheduled_date
             = EarliestFuture(data.delivery_dates, Today(now))

\* C11: last_updated never decreases: a skipped or failed cycle leaves it as
\* it was, and a successful fetch sets it to the current time, which is not
\* earlier than the value it replaces.
C11_LastUpdatedNeverDecreases ==
    [][ /\ (data.present /\ data'.present)
            => data'.last_updated >= data.last_updated
        /\ (cycles' = cycles + 1 /\ outcome' \in {"skip", "failure"})
            => data'.last_updated = data.last_updated
        /\ (cycles' = cycles + 1 /\ outcome' = "success")
            => (data'.present /\ data'.last_updated = now') ]_vars

C11_Witness ==
    /\ outcome = "success"
    /\ cycles >= 2
    /\ data.last_updated = now
    /\ now > 0

\* a step in which a cycle of either coordinator handles the response resp
CycleWith(resp) ==
    \/ AsyncUpdateData(resp)
    \/ \E seconds \in OffsetRange \cup JitterRange : PlainAsyncUpdateData(resp, seconds)

\* C12: with no seed the first cycle fetches; if the fetch succeeds the data
\* is exactly the fetched list in source order, with no last delivery date
\* and last_updated equal to the time of the fetch.
C12_UnseededFirstFetchStoresList ==
    [][ \A resp \in Responses :
          (cycles = 0 /\ ~data.present /\ CycleWith(resp))
          => /\ outcome' \in {"success", "failure"}
             /\ outcome' = "success"
                  => data' = MakeData(resp.entries[1].deliveryDates, now, NoDate) ]_vars

C12_Witness ==
    /\ cycles = 1
    /\ outcome = "success"
    /\ data = MakeData(<< <<6, 1>>, <<5, 31>> >>, now, NoDate)

\* C13: a malformed date string in the data does not abort anything: the
\* sensor's state and attributes are still computed, and a later cycle
\* whose response passes the response checks still succeeds.
C13_MalformedDateIsSkipped ==
    [][ /\ data'.present
            => /\ ~native_value(data', Today(now')).raised
               /\ ~extra_state_attributes(data', Today(now')).raised
        /\ \A resp \in Responses :
              ( /\ cycles' = cycles + 1
                /\ outcome' # "skip"
                /\ ~fetch_delivery_dates(resp).raised
                /\ CycleWith(resp) )
              => outcome' = "success" ]_vars

\* the coordinator's part alone: once the data holds a malformed date, a
\* response that passes the response checks no longer yields a success
MalformedDateBlocksNoFetch ==
    [][ \A resp \in Responses :
          ( /\ cycles' = cycles + 1
            /\ outcome' # "skip"
            /\ ~fetch_delivery_dates(resp).raised
            /\ CycleWith(resp) )
          => outcome' = "success" ]_vars

\* C14: a cycle ends in a success only if the response has status 200 and a
\* body that is a non-empty array whose element 0 holds a non-empty
\* deliveryDates list and the key postalCode.
C14_SuccessNeedsPostalCode ==
    [][ \A resp \in Responses :
          (cycles' = cycles + 1 /\ outcome' = "success" /\ CycleWith(resp))
          => /\ resp.kind = "http"
             /\ resp.status = 200
             /\ resp.json = "list"
             /\ resp.entries # <<>>
             /\ resp.entries[1].hasDeliveryDates
             /\ resp.entries[1].deliveryDates # <<>>
             /\ resp.entries[1].postalCode ]_vars

\* C15: the first successful fetch after one or more failed cycles brings
\* back the steady interval (base +/- jitterMax, exactly base in the dates
\* coordinator), and the retry interval is in effect only while the last
\* cycle failed.
C15_SuccessEndsRetry ==
    [][ /\ (cycles' = cycles + 1 /\ outcome = "failure" /\ outcome' = "success")
            => /\ update_interval' >= DEFAULT_UPDATE_INTERVAL - UPDATE_JITTER_MAX
               /\ update_interval' <= DEFAULT_UPDATE_INTERVAL + UPDATE_JITTER_MAX
               /\ update_interval' # RETRY_UPDATE_INTERVAL
               /\ variant = "dates" => update_interval' = DEFAULT_UPDATE_INTERVAL
        /\ update_interval' = RETRY_UPDATE_INTERVAL => outcome' = "failure" ]_vars

C15_Witness ==
    /\ variant = "dates"
    /\ cycles = 3
    /\ prev_outcome = "failure"
    /\ outcome = "success"
    /\ update_interval = DEFAULT_UPDATE_INTERVAL

\* a cycle of the coordinator, whatever the response
CycleStep == \E resp \in Responses : CycleWith(resp)

\* C16: every cycle ends in a skip, a new snapshot or UpdateFailed and in no
\* other exception, whatever the response and the data; it leaves a positive
\* update interval; and a further cycle can always be run.
C16_CycleEndsInOneOfThree ==
    /\ [](cycles < MaxCycles => ENABLED CycleStep)
    /\ [][ cycles' = cycles + 1
           => /\ outcome' \in {"skip", "success", "failure"}
              /\ outcome' = "skip" => (data' = data /\ data.present)
              /\ outcome' = "success" => (data'.present /\ last_update_success')
              /\ outcome' = "failure" => (data' = data /\ ~last_update_success')
              /\ update_interval' > 0 ]_vars

C16_Witness ==
    /\ variant = "dates"
    /\ ~AllWellFormed(data.delivery_dates)
    /\ prev_outcome = "success"
    /\ outcome = "failure"
    /\ update_interval > 0

\* C17: a setup step creates an entry only when validation succeeded. A postal
\* code that, once stripped of surrounding blanks, is not exactly five digits,
\* a transport failure, a status other than 200, and an empty or invalid body
\* each end the step with an error and no entry; an entry that is created
\* holds exactly the fetched deliveryDates and the time of the step; and a
\* coordinator gets a seed only from such an entry, with the entry's dates and
\* time.
C17_EntryOnlyAfterValidation ==
    [][ /\ \A text \in PostalCodeInputs, resp \in Responses :
              StepUser(text, resp) =>
                  LET rejected == \/ ~MatchesFiveDigits(strip(text))
                                  \/ resp.kind # "http"
                                  \/ resp.status # 200
                                  \/ resp.json # "list"
                                  \/ resp.entries = <<>>
                                  \/ resp.entries[1].deliveryDates = <<>>
                  IN /\ rejected => errors' # "none" /\ ~entry'.created
                     /\ entry'.created =>
                            /\ ~rejected
                            /\ entry'.delivery_dates = resp.entries[1].deliveryDates
                            /\ entry'.last_updated = isoformat(now)
        /\ data'.present =>
               /\ entry'.created
               /\ data'.delivery_dates = entry'.delivery_dates
               /\ isoformat(data'.last_updated) = entry'.last_updated
               /\ data'.last_delivery_date = NoDate
      ]_vars

\* an entry created at tick 1 seeded a coordinator that exists at tick 2
C17_Witness ==
    /\ entry.created
    /\ entry.postal_code = PostalCode
    /\ entry.last_updated = isoformat(1)
    /\ data = MakeData(<< <<6, 1>>, <<5, 31>> >>, 1, NoDate)
    /\ skip_first_update
    /\ errors = "none"
    /\ now = 2

\* C20: whenever the attributes are computed, days_until_next is None exactly
\* when next_scheduled_date is None; otherwise it is a number of days that is
\* not negative and that, counted from today, gives the next scheduled date.
C20_DaysUntilNextMatchesNext ==
    LET today == Today(now)
        r == extra_state_attributes(data, today)
    IN ~r.raised =>
           /\ (r.value.days_until_next = NoDays)
                  <=> (r.value.next_scheduled_date = NoDate)
           /\ r.value.next_scheduled_date # NoDate =>
                  /\ Len(r.value.days_until_next) = 1
                  /\ r.value.days_until_next[1] >= 0
                  /\ today + r.value.days_until_next[1]
                         = strptime(r.value.next_scheduled_date)

\* on 2025-05-30 a fetched list 2025-05-31, 2025-06-01 gives next 2025-05-31,
\* one day ahead, out of two deliveries
C20_Witness ==
    /\ Today(now) = strptime(<<5, 30>>)
    /\ outcome = "success"
    /\ data.present
    /\ data.delivery_dates = << <<5, 31>>, <<6, 1>> >>
    /\ extra_state_attributes(data, Today(now))
           = Returned(Attributes(<<5, 31>>, NoDate, <<1>>, 2,
                                 << <<5, 31>>, <<6, 1>> >>, data.last_updated))

\* C21: the seeded skip happens at most once per coordinator: only the first
\* cycle of a coordinator that was constructed with a seed can return without
\* fetching, the flag that allows it is down after the first cycle, and every
\* later cycle attempts a fetch whatever the earlier cycles did.
C21_SkipOnlyOnFirstSeededCycle ==
    [][ cycles' = cycles + 1 =>
            /\ outcome' = "skip" => (cycles = 0 /\ data.present /\ skip_first_update)
            /\ cycles >= 1 => outcome' \in {"success", "failure", "error"}
            /\ ~skip_first_update' ]_vars

\* a seeded coordinator skipped its first cycle and fetched in its second
C21_Witness ==
    /\ cycles = 2
    /\ prev_outcome = "skip"
    /\ outcome = "success"
    /\ data.present
    /\ ~skip_first_update

\* C22: the sensor's state and its next_scheduled_date attribute are computed
\* from the data and today alone. Whenever they are computed they agree and
\* the date they report is not before today; and when today moves past the
\* reported date while the data stays as it is, the report becomes None or a
\* later date of the same list.
C22_ReportedNextFollowsToday ==
    /\ [](LET state == native_value(data, Today(now))
              attrs == extra_state_attributes(data, Today(now))
          IN ~state.raised =>
                 /\ ~attrs.raised
                 /\ attrs.value.next_scheduled_date = state.value
                 /\ state.value # NoDate => strptime(state.value) >= Today(now))
    /\ [][ LET before == native_value(data, Today(now))
               after == native_value(data', Today(now'))
           IN ( /\ data' = data
                /\ ~before.raised
                /\ before.value # NoDate
                /\ Today(now') > strptime(before.value) )
              => /\ ~after.raised
                 /\ \/ after.value = NoDate
                    \/ /\ \E i \in 1..Len(data.delivery_dates) :
                              data.delivery_dates[i] = after.value
                       /\ strptime(after.value) > strptime(before.value) ]_vars

\* on 2025-06-01 a list fetched the day before, whose next date was then
\* 2025-05-31, reports 2025-06-01
C22_Witness ==
    /\ Today(now) = strptime(<<6, 1>>)
    /\ data.present
    /\ data.delivery_dates = << <<5, 31>>, <<6, 1>> >>
    /\ Today(data.last_updated) = strptime(<<5, 31>>)
    /\ native_value(data, Today(data.last_updated)) = Returned(<<5, 31>>)
    /\ native_value(data, Today(now)) = Returned(<<6, 1>>)

\* C23: a setup step reports each kind of failure under its own error: a
\* postal code that is not five digits as invalid_postal_code, a transport
\* failure or a status other than 200 as cannot_connect, a body that is
\* empty or not a list of entries with delivery dates as no_data, and
\* unknown for nothing that falls under one of these.
C23_EachFailureHasItsOwnError ==
    [][ \A text \in PostalCodeInputs, resp \in Responses :
            StepUser(text, resp) =>
                LET malformed == ~MatchesFiveDigits(strip(text))
                    unreachable == \/ resp.kind = "ClientError"
                                   \/ resp.kind = "http" /\ resp.status # 200
                    empty == /\ resp.kind = "http"
                             /\ resp.status = 200
                             /\ resp.json # "invalid"
                             /\ \/ resp.json # "list"
                                \/ resp.entries = <<>>
                                \/ ~resp.entries[1].postalCode
                                \/ ~resp.entries[1].hasDeliveryDates
                                \/ resp.entries[1].deliveryDates = <<>>
                IN /\ malformed => errors' = "invalid_postal_code"
                   /\ (~malformed /\ unreachable) => errors' = "cannot_connect"
                   /\ (~malformed /\ empty) => errors' = "no_data"
                   /\ errors' = "unknown" => ~(malformed \/ unreachable \/ empty)
      ]_vars
====
